---- MODULE Spec2Model ----
(***************************************************************************)
(* Model of src/tsne/bhtsne.py: the generator bh_tsne, which encodes a     *)
(* request file into a temporary workspace, runs the bh_tsne engine        *)
(* there, decodes the engine's result file, sorts the decoded records by   *)
(* landmark and yields the vectors, and the TmpDir context manager that    *)
(* owns the workspace.                                                     *)
(*                                                                         *)
(* A file is modelled as the sequence of the fields packed into it, each   *)
(* field a pair <<format character, value>> ("i" a native int, "d" a       *)
(* double).  An absent file is <<>>, a present file with content c is      *)
(* <<c>>.  The engine is the environment: the exit status it ends with and *)
(* the result file it leaves are fixed per run, in Init.                   *)
(***************************************************************************)
EXTENDS Integers, Sequences, FiniteSets, TLC

\* ---------------------------------------------------------------------
\* Bounds of the model
\* ---------------------------------------------------------------------
\* largest number of samples in a batch, and of records in a result file
MaxN == 2
\* largest number of values in one sample
MaxDim == 2
\* the names the temporary root has room for
MaxPaths == 2
\* largest value of a native int ("i"), scaled down from 2^31 - 1
INT_MAX == 3

INT_MIN == -INT_MAX - 1

\* the values a double takes in the model: two distinguishable doubles
Values == {0, 1}

\* ---------------------------------------------------------------------
\* Program constants
\* ---------------------------------------------------------------------
DEFAULT_NO_DIMS == 2
\* 30.0
DEFAULT_PERPLEXITY == 30
\* 0.5, in tenths
DEFAULT_THETA == 5
EMPTY_SEED == -1

\* sample_dim=None
None == <<>>
Some(v) == <<v>>

\* ---------------------------------------------------------------------
\* Files
\* ---------------------------------------------------------------------
Absent == <<>>
File(content) == <<content>>
Present(f) == f # Absent
Content(f) == f[1]

\* struct.pack('i', v) raises struct.error unless v fits a native int
FitsInt(v) == v \in INT_MIN..INT_MAX

PackI(v) == <<"i", v>>
PackD(v) == <<"d", v>>

\* the values of a sample written last first
PackSampleReversed(sample) ==
    [j \in 1..Len(sample) |-> PackD(sample[Len(sample) + 1 - j])]

\* pack('{}d'.format(len(sample)), *sample): one double per value of the sample
PackSample(sample) == [j \in 1..Len(sample) |-> PackD(sample[j])]

\* pack('iiddi', sample_count, sample_dim, theta, perplexity, no_dims)
PackHeader(n, d, th, perp, nd) ==
    << PackI(n), PackI(d), PackD(th), PackD(perp), PackI(nd) >>

RECURSIVE Flatten(_)
Flatten(ss) == IF ss = <<>> THEN <<>> ELSE Head(ss) \o Flatten(Tail(ss))

Prefix(s, m) == SubSeq(s, 1, m)


\* ---------------------------------------------------------------------
\* Ordering of the decoded records (list.sort on tuples)
\* ---------------------------------------------------------------------
\* Python's order on tuples of numbers: lexicographic, a proper prefix first
RECURSIVE TupleLess(_, _)
TupleLess(a, b) ==
    IF a = <<>> THEN b # <<>>
    ELSE IF b = <<>> THEN FALSE
    ELSE IF Head(a) # Head(b) THEN Head(a) < Head(b)
    ELSE TupleLess(Tail(a), Tail(b))

\* a decoded record is the tuple (landmark, e): landmark the 1-tuple read by
\* _read_unpack('i'), e the tuple of result_dims doubles
Landmark(r) == r[1]
Vector(r) == r[2]

\* the order list.sort uses on the records: tuple order on (landmark, e)
RecordLess(p, q) ==
    IF Landmark(p) # Landmark(q) THEN TupleLess(Landmark(p), Landmark(q))
    ELSE TupleLess(Vector(p), Vector(q))

\* insert r into the sorted list s, after every record that is not greater
RECURSIVE Insert(_, _)
Insert(r, s) ==
    IF s = <<>> THEN <<r>>
    ELSE IF RecordLess(r, Head(s)) THEN <<r>> \o s
    ELSE <<Head(s)>> \o Insert(r, Tail(s))

RECURSIVE SortFrom(_, _)
SortFrom(rs, acc) ==
    IF rs = <<>> THEN acc ELSE SortFrom(Tail(rs), Insert(Head(rs), acc))

\* the sort left out: the records stay in the order the engine emitted them
SortedNot(rs) == rs

\* results.sort(): ascending in RecordLess, equal records kept in order
Sorted(rs) == SortFrom(rs, <<>>)

\* ---------------------------------------------------------------------
\* The environment: callers' arguments and engine runs
\* ---------------------------------------------------------------------
VectorsOf(d) == [1..d -> Values]

\* a sample is a non-empty sequence of doubles; a batch need not be rectangular
Samples == UNION { VectorsOf(d) : d \in 1..MaxDim }
Batches == UNION { [1..n -> Samples] : n \in 0..MaxN }

\* the batches of n samples of one value each
PlainBatches == { [p \in 1..n |-> <<0>>] : n \in 1..MaxN }

\* sample_dim: None or an explicit dimensionality
SampleDims == {None} \cup { Some(d) : d \in 1..MaxDim }

\* the seeds a caller passes: one that fits a native int, one that does not,
\* and the value of the default
Seeds == {0, INT_MAX + 1, EMPTY_SEED}

\* line 97: randseed=EMPTY_SEED unless the caller passes one
NoSeed == [supplied |-> FALSE, value |-> EMPTY_SEED]
SeedArgs == {NoSeed} \cup { [supplied |-> TRUE, value |-> v] : v \in Seeds }

\* the keyword arguments of a call: any sample_dim without a seed, or any seed
\* without a sample_dim
CallArgs ==
    { [sample_dim |-> d, seed |-> NoSeed] : d \in SampleDims } \cup
    { [sample_dim |-> None, seed |-> a] : a \in SeedArgs }

\* the result file an engine leaves when it writes cnt records of dims values,
\* then their cnt landmarks, then cnt costs
ResultLayout(cnt, dims, vecs, idxs) ==
    << PackI(cnt), PackI(dims) >>
    \o Flatten([p \in 1..cnt |-> [j \in 1..dims |-> PackD(vecs[p][j])]])
    \o [p \in 1..cnt |-> PackI(idxs[p])]
    \o [p \in 1..cnt |-> PackD(0)]

ResultDims == 1..DEFAULT_NO_DIMS

ResultLayouts ==
    UNION { UNION { { ResultLayout(cnt, dims, vecs, idxs) :
                        vecs \in [1..cnt -> VectorsOf(dims)],
                        idxs \in [1..cnt -> 0..(cnt - 1)] } :
                    dims \in ResultDims } :
            cnt \in 0..MaxN }

\* every result file: none, a whole layout, or a layout cut short
ResultFiles ==
    {Absent} \cup
    UNION { { File(Prefix(l, m)) : m \in 0..Len(l) } : l \in ResultLayouts }

\* an engine run: its exit status and the result.dat it leaves, or an engine
\* that echoes the request it finds (then both are read off the request)
Succeeds(f) == [returncode |-> 0, result |-> f, echo |-> FALSE]
Fails(f) == [returncode |-> 1, result |-> f, echo |-> FALSE]
EchoEngine == [returncode |-> 0, result |-> Absent, echo |-> TRUE]

\* the request as the echoing engine reads it: the header's count and
\* dimensionality, then the doubles that follow the five header fields
RequestCount(req) == req[1][2]
RequestDim(req) == req[2][2]
RequestDoubles(req) ==
    SelectSeq(SubSeq(req, 6, Len(req)), LAMBDA fld : fld[1] = "d")

\* the echoing engine can read count * dim doubles after the header
Echoable(req) ==
    /\ Len(req) >= 5
    /\ Len(RequestDoubles(req)) >= RequestCount(req) * RequestDim(req)

\* the result the echoing engine writes: the rows of the request as the
\* vectors, in order, tagged 0, 1, ... in that order
EchoResult(req) ==
    File(ResultLayout(
        RequestCount(req), RequestDim(req),
        [p \in 1..RequestCount(req) |->
            [j \in 1..RequestDim(req) |->
                RequestDoubles(req)[(p - 1) * RequestDim(req) + j][2]]],
        [p \in 1..RequestCount(req) |-> p - 1]))

\* what the engine run e does with the request file f: the echoing engine
\* fails and writes nothing when it cannot read the request
ExitStatus(e, f) ==
    IF e.echo THEN (IF Present(f) /\ Echoable(Content(f)) THEN 0 ELSE 1)
    ELSE e.returncode
LeftResult(e, f) ==
    IF e.echo THEN (IF Present(f) /\ Echoable(Content(f))
                    THEN EchoResult(Content(f)) ELSE Absent)
    ELSE e.result

\* the whole result for n samples, in input order
InOrderResult(n) ==
    File(ResultLayout(n, 1, [p \in 1..n |-> <<0>>], [p \in 1..n |-> p - 1]))

\* an engine that succeeds, and one that fails and leaves nothing
PlainEngines(n) == { Succeeds(InOrderResult(n)), Fails(Absent) }

\* every engine run: success with any result file, failure with or without one
Engines(n) ==
    { Succeeds(f) : f \in ResultFiles } \cup { Fails(Absent), Fails(InOrderResult(n)) }

\* ---------------------------------------------------------------------
\* State
\* ---------------------------------------------------------------------
VARIABLES
    samples, no_dims, perplexity, theta, randseed, seedSupplied, verbose,
    sample_dim,
    engine,
    pc, err, closeCalled, stops,
    sample_count, k,
    wsExists, wsCreated, rmtreeFailed,
    dataFile, dataOpen,
    launches, engineState, engineStdout, returncode,
    resultFile, resultOpen, resultOpened, pos,
    result_samples, result_dims, vectors, results,
    yielded,
    callAt, tmp_dir_path, tmpRoot, readOf

args == << samples, no_dims, perplexity, theta, randseed, seedSupplied, verbose,
          engine >>
locals == << sample_dim, sample_count, k >>
workspace == << wsExists, wsCreated, rmtreeFailed >>
request == << dataFile, dataOpen >>
process == << launches, engineState, engineStdout, returncode >>
response == << resultFile, resultOpen, resultOpened, pos >>
decoded == << result_samples, result_dims, vectors, results >>

\* two invocations side by side, at the grain of their workspaces: where each
\* one is, the path its TmpDir holds, the directories under the temporary
\* root, and whose result each one has decoded
calls == << callAt, tmp_dir_path, tmpRoot, readOf >>

vars == << args, locals, workspace, request, process, response, decoded,
           pc, err, closeCalled, stops, yielded, calls >>

\* the two invocations, and the names mkdtemp can give a directory
Calls == {1, 2}
PathNames == 1..MaxPaths

\* a name under the temporary root with no directory, and the new directory
\* mkdtemp makes: data and result hold the call the file was written for,
\* 0 when there is no such file
NoDir == [exists |-> FALSE, data |-> 0, result |-> 0]
NewDir == [exists |-> TRUE, data |-> 0, result |-> 0]

\* no invocation has been made yet
CallsIdle ==
    /\ callAt = [c \in Calls |-> "created"]
    /\ tmp_dir_path = [c \in Calls |-> 0]
    /\ tmpRoot = [p \in PathNames |-> NoDir]
    /\ readOf = [c \in Calls |-> 0]

\* the call itself makes the workspace and only the rest is left to the
\* first next()
InitRestEager ==
    /\ no_dims = DEFAULT_NO_DIMS
    /\ perplexity = DEFAULT_PERPLEXITY
    /\ theta = DEFAULT_THETA
    /\ pc = "created"
    /\ err = "none"
    /\ closeCalled = FALSE
    /\ stops = FALSE
    /\ sample_count = 0
    /\ k = 0
    /\ wsExists = TRUE
    /\ wsCreated = 1
    /\ rmtreeFailed = FALSE
    /\ dataFile = Absent
    /\ dataOpen = FALSE
    /\ launches = 0
    /\ engineState = "none"
    /\ engineStdout = "none"
    /\ returncode = None
    /\ resultFile = Absent
    /\ resultOpen = FALSE
    /\ resultOpened = FALSE
    /\ pos = 0
    /\ result_samples = 0
    /\ result_dims = 0
    /\ vectors = <<>>
    /\ results = <<>>
    /\ yielded = <<>>
    /\ CallsIdle

\* the generator object as bh_tsne(...) returns it: no line of the body has run
InitRest ==
    /\ no_dims = DEFAULT_NO_DIMS
    /\ perplexity = DEFAULT_PERPLEXITY
    /\ theta = DEFAULT_THETA
    /\ pc = "created"
    /\ err = "none"
    /\ closeCalled = FALSE
    /\ stops = FALSE
    /\ sample_count = 0
    /\ k = 0
    /\ wsExists = FALSE
    /\ wsCreated = 0
    /\ rmtreeFailed = FALSE
    /\ dataFile = Absent
    /\ dataOpen = FALSE
    /\ launches = 0
    /\ engineState = "none"
    /\ engineStdout = "none"
    /\ returncode = None
    /\ resultFile = Absent
    /\ resultOpen = FALSE
    /\ resultOpened = FALSE
    /\ pos = 0
    /\ result_samples = 0
    /\ result_dims = 0
    /\ vectors = <<>>
    /\ results = <<>>
    /\ yielded = <<>>
    /\ CallsIdle

\* every argument list, against the plain engines
InitRequests ==
    /\ samples \in Batches
    /\ \E a \in CallArgs :
          /\ sample_dim = a.sample_dim
          /\ seedSupplied = a.seed.supplied
          /\ randseed = a.seed.value
    /\ verbose = FALSE
    /\ engine \in PlainEngines(Len(samples))

\* every engine run, against the plain batches
InitResponses ==
    /\ samples \in PlainBatches
    /\ sample_dim = None
    /\ seedSupplied = FALSE
    /\ randseed = EMPTY_SEED
    /\ verbose = FALSE
    /\ engine \in Engines(Len(samples))

\* verbose mode, plain batches against the plain engines
InitVerbose ==
    /\ samples \in PlainBatches
    /\ sample_dim = None
    /\ seedSupplied = FALSE
    /\ randseed = EMPTY_SEED
    /\ verbose = TRUE
    /\ engine \in PlainEngines(Len(samples))

Init == (InitRequests \/ InitResponses \/ InitVerbose) /\ InitRest

\* every argument list, against the echoing engine
InitEcho ==
    /\ samples \in Batches
    /\ \E a \in CallArgs :
          /\ sample_dim = a.sample_dim
          /\ seedSupplied = a.seed.supplied
          /\ randseed = a.seed.value
    /\ verbose = FALSE
    /\ engine = EchoEngine
    /\ InitRest

\* ---------------------------------------------------------------------
\* Leaving the body
\* ---------------------------------------------------------------------
\* an exception that leaves the body without running TmpDir.__exit__, as when
\* the workspace is made by a bare mkdtemp() and removed on the last line
RaiseNoExit(e) ==
    /\ err' = e
    /\ dataOpen' = FALSE
    /\ resultOpen' = FALSE
    /\ pc' = "failed"

\* an exception raised inside "with TmpDir()": the open files' with-blocks
\* close them, then TmpDir.__exit__ runs
RaiseInside(e) ==
    /\ err' = e
    /\ dataOpen' = FALSE
    /\ resultOpen' = FALSE
    /\ pc' = "tmpdir_exit"

\* how the generator ends once __exit__ has returned: the pending exception
\* goes to the caller, GeneratorExit ends close(), else StopIteration
Outcome(e) ==
    IF e = "none" THEN "done"
    ELSE IF e = "GeneratorExit" THEN "closed"
    ELSE "failed"

\* ---------------------------------------------------------------------
\* The body of bh_tsne, from the first next() on
\* ---------------------------------------------------------------------
\* lines 101-103: sample_dim defaults to len(samples[0]), sample_count = len(samples)
Begin ==
    /\ pc = "created"
    /\ IF sample_dim = None /\ samples = <<>>
       THEN /\ err' = "IndexError"
            /\ pc' = "failed"
            /\ UNCHANGED locals
       ELSE /\ sample_dim' = IF sample_dim = None
                             THEN Some(Len(samples[1])) ELSE sample_dim
            /\ sample_count' = Len(samples)
            /\ pc' = "mkdtemp"
            /\ UNCHANGED << err, k >>
    /\ UNCHANGED << args, calls, closeCalled, stops, workspace, request, process, response,
                    decoded, yielded >>

\* TmpDir.__enter__: mkdtemp() creates the workspace
TmpDirEnter ==
    /\ pc = "mkdtemp"
    /\ wsExists' = TRUE
    /\ wsCreated' = wsCreated + 1
    /\ pc' = "open_data"
    /\ UNCHANGED << args, calls, closeCalled, stops, locals, rmtreeFailed, request, process, response,
                    decoded, err, yielded >>

\* mkdtemp() raises: no workspace, no __exit__
MkdtempFails ==
    /\ pc = "mkdtemp"
    /\ err' = "OSError"
    /\ pc' = "failed"
    /\ UNCHANGED << args, calls, closeCalled, stops, locals, workspace, request, process, response,
                    decoded, yielded >>

\* line 110: open(data.dat, 'wb') creates the request file, empty
OpenData ==
    /\ pc = "open_data"
    /\ dataFile' = File(<<>>)
    /\ dataOpen' = TRUE
    /\ pc' = "write_header"
    /\ UNCHANGED << args, calls, closeCalled, stops, locals, workspace, process, response, decoded,
                    err, yielded >>

\* line 112: the header; pack raises struct.error on an int that does not fit
WriteHeader ==
    /\ pc = "write_header"
    /\ IF FitsInt(sample_count) /\ FitsInt(sample_dim[1]) /\ FitsInt(no_dims)
       THEN /\ dataFile' = File(Content(dataFile) \o
                   PackHeader(sample_count, sample_dim[1], theta, perplexity, no_dims))
            /\ k' = 1
            /\ pc' = "write_samples"
            /\ UNCHANGED << err, dataOpen, resultOpen >>
       ELSE /\ RaiseInside("struct.error")
            /\ UNCHANGED << dataFile, k >>
    /\ UNCHANGED << args, calls, closeCalled, stops, sample_dim, sample_count, workspace, process,
                    resultFile, resultOpened, pos, decoded, yielded >>

\* lines 114-115: one sample, len(sample) doubles
WriteSample ==
    /\ pc = "write_samples"
    /\ k <= Len(samples)
    /\ dataFile' = File(Content(dataFile) \o PackSample(samples[k]))
    /\ k' = k + 1
    /\ UNCHANGED << args, calls, closeCalled, stops, sample_dim, sample_count, workspace, dataOpen,
                    process, response, decoded, pc, err, yielded >>

\* the seed written whatever its value
SeedBlockAlways(seed) == << PackI(seed) >>

\* the seed block of the request file: empty for EMPTY_SEED
SeedBlock(seed) == IF seed # EMPTY_SEED THEN << PackI(seed) >> ELSE <<>>

\* the engine launched inside the request file's with-block: the file is
\* still open for writing when Popen runs
WriteSeedStaysOpen ==
    /\ pc = "write_samples"
    /\ k > Len(samples)
    /\ IF randseed # EMPTY_SEED /\ ~FitsInt(randseed)
       THEN /\ RaiseInside("struct.error")
            /\ UNCHANGED dataFile
       ELSE /\ dataFile' = File(Content(dataFile) \o SeedBlock(randseed))
            /\ pc' = "popen"
            /\ UNCHANGED << err, dataOpen, resultOpen >>
    /\ UNCHANGED << args, calls, closeCalled, stops, locals, workspace, process, resultFile,
                    resultOpened, pos, decoded, yielded >>

\* lines 116-118, after the last sample: the seed if one was given, then the
\* with-block closes the request file
WriteSeed ==
    /\ pc = "write_samples"
    /\ k > Len(samples)
    /\ IF randseed # EMPTY_SEED /\ ~FitsInt(randseed)
       THEN /\ RaiseInside("struct.error")
            /\ UNCHANGED dataFile
       ELSE /\ dataFile' = File(Content(dataFile) \o SeedBlock(randseed))
            /\ dataOpen' = FALSE
            /\ pc' = "popen"
            /\ UNCHANGED << err, resultOpen >>
    /\ UNCHANGED << args, calls, closeCalled, stops, locals, workspace, process, resultFile, resultOpened,
                    pos, decoded, yielded >>

\* a write to the request file raises IOError (the disk is full)
WriteFails ==
    /\ pc \in {"write_header", "write_samples"}
    /\ RaiseInside("IOError")
    /\ UNCHANGED << args, calls, closeCalled, stops, locals, workspace, dataFile, process, resultFile,
                    resultOpened, pos, decoded, yielded >>

\* lines 121-125: Popen launches the engine in the workspace
Launch ==
    /\ pc = "popen"
    /\ launches' = launches + 1
    /\ engineState' = "running"
    /\ engineStdout' = IF verbose THEN "stderr" ELSE "devnull"
    /\ pc' = "wait"
    /\ UNCHANGED << args, calls, closeCalled, stops, locals, workspace, request, returncode, response,
                    decoded, err, yielded >>

\* line 126: wait() returns when the engine has ended, leaving its result file
Wait ==
    /\ pc = "wait"
    /\ engineState' = "exited"
    /\ returncode' = Some(ExitStatus(engine, dataFile))
    /\ resultFile' = LeftResult(engine, dataFile)
    /\ pc' = "assert"
    /\ UNCHANGED << args, calls, closeCalled, stops, locals, workspace, request, launches, engineStdout,
                    resultOpen, resultOpened, pos, decoded, err, yielded >>

\* KeyboardInterrupt while wait() blocks
Interrupt ==
    /\ pc = "wait"
    /\ RaiseInside("KeyboardInterrupt")
    /\ UNCHANGED << args, calls, closeCalled, stops, locals, workspace, dataFile, process, resultFile,
                    resultOpened, pos, decoded, yielded >>

\* the exit status not checked
AssertReturncodeNot ==
    /\ pc = "assert"
    /\ pc' = "open_result"
    /\ UNCHANGED << args, calls, closeCalled, stops, locals, workspace, request, process, response,
                    decoded, err, yielded >>

\* lines 127-130: assert not returncode
AssertReturncode ==
    /\ pc = "assert"
    /\ IF returncode # Some(0)
       THEN RaiseInside("AssertionError")
       ELSE /\ pc' = "open_result"
            /\ UNCHANGED << err, dataOpen, resultOpen >>
    /\ UNCHANGED << args, calls, closeCalled, stops, locals, workspace, dataFile, process, resultFile,
                    resultOpened, pos, decoded, yielded >>

\* line 133: open(result.dat, 'rb')
OpenResult ==
    /\ pc = "open_result"
    /\ IF ~Present(resultFile)
       THEN /\ RaiseInside("IOError")
            /\ UNCHANGED << resultOpened, pos >>
       ELSE /\ resultOpen' = TRUE
            /\ resultOpened' = TRUE
            /\ pos' = 0
            /\ pc' = "read_header"
            /\ UNCHANGED << err, dataOpen >>
    /\ UNCHANGED << args, calls, closeCalled, stops, locals, workspace, dataFile, process, resultFile,
                    decoded, yielded >>

\* the fields not yet read
Remaining == Len(Content(resultFile)) - pos
\* the value of the j-th field after the read position
Field(j) == Content(resultFile)[pos + j][2]

\* line 136: _read_unpack('ii'); unpack raises struct.error on a short read
ReadHeader ==
    /\ pc = "read_header"
    /\ IF Remaining < 2
       THEN /\ RaiseInside("struct.error")
            /\ UNCHANGED << pos, result_samples, result_dims >>
       ELSE /\ result_samples' = Field(1)
            /\ result_dims' = Field(2)
            /\ pos' = pos + 2
            /\ pc' = "read_vectors"
            /\ UNCHANGED << err, dataOpen, resultOpen >>
    /\ UNCHANGED << args, calls, closeCalled, stops, locals, workspace, dataFile, process, resultFile,
                    resultOpened, vectors, results, yielded >>

\* the vectors passed on as they are read: the first one is yielded before any
\* landmark is read
ReadVectorsPassedOn ==
    /\ pc = "read_vectors"
    /\ IF Remaining < result_samples * result_dims
       THEN /\ RaiseInside("struct.error")
            /\ UNCHANGED << pos, vectors, yielded >>
       ELSE /\ vectors' = [p \in 1..result_samples |->
                             [j \in 1..result_dims |->
                                Field((p - 1) * result_dims + j)]]
            /\ yielded' = IF result_samples > 0 THEN << vectors'[1] >> ELSE <<>>
            /\ pos' = pos + result_samples * result_dims
            /\ pc' = "read_landmarks"
            /\ UNCHANGED << err, dataOpen, resultOpen >>
    /\ UNCHANGED << args, calls, closeCalled, stops, locals, workspace, dataFile, process, resultFile,
                    resultOpened, result_samples, result_dims, results >>

\* lines 138-139: result_samples records of result_dims doubles
ReadVectors ==
    /\ pc = "read_vectors"
    /\ IF Remaining < result_samples * result_dims
       THEN /\ RaiseInside("struct.error")
            /\ UNCHANGED << pos, vectors >>
       ELSE /\ vectors' = [p \in 1..result_samples |->
                             [j \in 1..result_dims |->
                                Field((p - 1) * result_dims + j)]]
            /\ pos' = pos + result_samples * result_dims
            /\ pc' = "read_landmarks"
            /\ UNCHANGED << err, dataOpen, resultOpen >>
    /\ UNCHANGED << args, calls, closeCalled, stops, locals, workspace, dataFile, process, resultFile,
                    resultOpened, result_samples, result_dims, results, yielded >>

\* the landmarks, and then the cost of every sample read and dropped
ReadLandmarksAndCosts ==
    /\ pc = "read_landmarks"
    /\ IF Remaining < Len(vectors) + sample_count
       THEN /\ RaiseInside("struct.error")
            /\ UNCHANGED << pos, results >>
       ELSE /\ results' = [p \in 1..Len(vectors) |-> << <<Field(p)>>, vectors[p] >>]
            /\ pos' = pos + Len(vectors) + sample_count
            /\ pc' = "sort"
            /\ UNCHANGED << err, dataOpen, resultOpen >>
    /\ UNCHANGED << args, calls, closeCalled, stops, locals, workspace, dataFile, process, resultFile,
                    resultOpened, result_samples, result_dims, vectors, yielded >>

\* line 142: one landmark per record read, paired with it by position; the
\* read of the costs (line 148) is commented out
ReadLandmarks ==
    /\ pc = "read_landmarks"
    /\ IF Remaining < Len(vectors)
       THEN /\ RaiseInside("struct.error")
            /\ UNCHANGED << pos, results >>
       ELSE /\ results' = [p \in 1..Len(vectors) |-> << <<Field(p)>>, vectors[p] >>]
            /\ pos' = pos + Len(vectors)
            /\ pc' = "sort"
            /\ UNCHANGED << err, dataOpen, resultOpen >>
    /\ UNCHANGED << args, calls, closeCalled, stops, locals, workspace, dataFile, process, resultFile,
                    resultOpened, result_samples, result_dims, vectors, yielded >>

\* the sort as the last line inside "with TmpDir()": the workspace is removed
\* before the first yield
SortResultsThenExit ==
    /\ pc = "sort"
    /\ results' = Sorted(results)
    /\ wsExists' = FALSE
    /\ dataFile' = Absent
    /\ resultFile' = Absent
    /\ resultOpen' = FALSE
    /\ pc' = "loop"
    /\ UNCHANGED << args, calls, closeCalled, stops, locals, wsCreated, rmtreeFailed, dataOpen,
                    process, resultOpened, pos, result_samples, result_dims,
                    vectors, err, yielded >>

\* line 144: results.sort()
SortResults ==
    /\ pc = "sort"
    /\ results' = Sorted(results)
    /\ pc' = "loop"
    /\ UNCHANGED << args, calls, closeCalled, stops, locals, workspace, request, process, response,
                    result_samples, result_dims, vectors, err, yielded >>

\* lines 145-146: yield the next vector; the generator is suspended inside
\* both with-blocks
Yield ==
    /\ pc = "loop"
    /\ Len(yielded) < Len(results)
    /\ yielded' = Append(yielded, Vector(results[Len(yielded) + 1]))
    /\ pc' = "suspended"
    /\ UNCHANGED << args, calls, closeCalled, stops, locals, workspace, request, process, response,
                    decoded, err >>

\* the for loop is exhausted: the result file's with-block closes it
LoopEnds ==
    /\ pc = "loop"
    /\ Len(yielded) = Len(results)
    /\ resultOpen' = FALSE
    /\ pc' = "tmpdir_exit"
    /\ UNCHANGED << args, calls, closeCalled, stops, locals, workspace, request, process, resultFile,
                    resultOpened, pos, decoded, err, yielded >>

\* the caller's next() on the suspended generator
Resume ==
    /\ pc = "suspended"
    /\ pc' = "loop"
    /\ UNCHANGED << args, calls, closeCalled, stops, locals, workspace, request, process, response,
                    decoded, err, yielded >>

\* close() that ends the generator where it stands, no with-block unwound
CloseNoExit ==
    /\ pc = "suspended"
    /\ closeCalled' = TRUE
    /\ err' = "GeneratorExit"
    /\ dataOpen' = FALSE
    /\ resultOpen' = FALSE
    /\ pc' = "closed"
    /\ UNCHANGED << args, calls, stops, locals, workspace, dataFile, process, resultFile,
                    resultOpened, pos, decoded, yielded >>

\* the caller's close() (or the collector's) on the suspended generator:
\* GeneratorExit is raised at the yield
Close ==
    /\ pc = "suspended"
    /\ closeCalled' = TRUE
    /\ RaiseInside("GeneratorExit")
    /\ UNCHANGED << args, calls, stops, locals, workspace, dataFile, process, resultFile,
                    resultOpened, pos, decoded, yielded >>

\* close() on a generator that never started: the body does not run
CloseUnstarted ==
    /\ pc = "created"
    /\ closeCalled' = TRUE
    /\ pc' = "closed"
    /\ UNCHANGED << args, calls, stops, locals, workspace, request, process, response,
                    decoded, err, yielded >>

\* TmpDir.__exit__: rmtree removes the workspace and the files in it
TmpDirExit ==
    /\ pc = "tmpdir_exit"
    /\ wsExists' = FALSE
    /\ dataFile' = Absent
    /\ resultFile' = Absent
    /\ pc' = Outcome(err)
    /\ UNCHANGED << args, calls, closeCalled, stops, locals, wsCreated, rmtreeFailed, dataOpen, process,
                    resultOpen, resultOpened, pos, decoded, err, yielded >>

\* rmtree raises: its exception leaves __exit__ in place of the pending one
RmtreeFails ==
    /\ pc = "tmpdir_exit"
    /\ rmtreeFailed' = TRUE
    /\ err' = "OSError"
    /\ pc' = "failed"
    /\ UNCHANGED << args, calls, closeCalled, stops, locals, wsExists, wsCreated, request, process,
                    response, decoded, yielded >>

\* the invocation has ended: StopIteration, an exception at the caller, or closed
Ended == pc \in {"done", "failed", "closed"}

\* the generator that has ended, left as it is and started again: the two
\* ways a further next() goes on an object that can be iterated again
Restarted ==
    /\ Ended
    /\ ~stops
    /\ stops' = TRUE
    /\ pc' = "created"
    /\ UNCHANGED << args, calls, closeCalled, locals, workspace, request, process, response,
                    decoded, err, yielded >>

\* next() on a generator that has ended: StopIteration at once, no line of
\* the body runs; stops records that this has happened (any further such call
\* changes nothing)
NextAfterEnd ==
    /\ Ended
    /\ ~stops
    /\ stops' = TRUE
    /\ UNCHANGED << args, calls, closeCalled, locals, workspace, request, process, response,
                    decoded, pc, err, yielded >>

Next ==
    \/ Begin
    \/ TmpDirEnter
    \/ MkdtempFails
    \/ OpenData
    \/ WriteHeader
    \/ WriteSample
    \/ WriteSeed
    \/ WriteFails
    \/ Launch
    \/ Wait
    \/ Interrupt
    \/ AssertReturncode
    \/ OpenResult
    \/ ReadHeader
    \/ ReadVectors
    \/ ReadLandmarks
    \/ SortResults
    \/ Yield
    \/ LoopEnds
    \/ Resume
    \/ Close
    \/ CloseUnstarted
    \/ TmpDirExit
    \/ RmtreeFails
    \/ NextAfterEnd

Spec == Init /\ [][Next]_vars

\* the runs against the echoing engine
SpecEcho == InitEcho /\ [][Next]_vars

\* ---------------------------------------------------------------------
\* Two invocations side by side
\* ---------------------------------------------------------------------
\* the single invocation modelled above, at rest while the two run
single == << args, locals, workspace, request, process, response, decoded,
            pc, err, closeCalled, stops, yielded >>

\* call c is inside "with TmpDir()": __enter__ has returned, __exit__ has not
Holding(c) ==
    callAt[c] \in {"write", "popen", "engine", "wait", "read", "suspended", "exit"}

\* the first next() of call c starts the body
FirstNextIn(c) ==
    /\ callAt[c] = "created"
    /\ callAt' = [callAt EXCEPT ![c] = "mkdtemp"]
    /\ UNCHANGED << single, tmp_dir_path, tmpRoot, readOf >>

\* one fixed directory for every call, made if it is not there
TmpDirEnterFixedIn(c) ==
    /\ callAt[c] = "mkdtemp"
    /\ tmpRoot' = [tmpRoot EXCEPT ![1].exists = TRUE]
    /\ tmp_dir_path' = [tmp_dir_path EXCEPT ![c] = 1]
    /\ callAt' = [callAt EXCEPT ![c] = "write"]
    /\ UNCHANGED << single, readOf >>

\* TmpDir.__enter__ of call c: mkdtemp makes a new, empty directory under a
\* name no existing directory has, and the TmpDir of the call keeps its path
TmpDirEnterIn(c) ==
    /\ callAt[c] = "mkdtemp"
    /\ \E p \in PathNames :
          /\ ~tmpRoot[p].exists
          /\ tmpRoot' = [tmpRoot EXCEPT ![p] = NewDir]
          /\ tmp_dir_path' = [tmp_dir_path EXCEPT ![c] = p]
    /\ callAt' = [callAt EXCEPT ![c] = "write"]
    /\ UNCHANGED << single, readOf >>

\* lines 110-118 of call c: data.dat is opened for writing in the call's
\* tmp_dir_path, which replaces whatever is there, and written
WriteRequestIn(c) ==
    /\ callAt[c] = "write"
    /\ IF tmpRoot[tmp_dir_path[c]].exists
       THEN /\ tmpRoot' = [tmpRoot EXCEPT ![tmp_dir_path[c]].data = c]
            /\ callAt' = [callAt EXCEPT ![c] = "popen"]
       ELSE /\ callAt' = [callAt EXCEPT ![c] = "exit"]
            /\ UNCHANGED tmpRoot
    /\ UNCHANGED << single, tmp_dir_path, readOf >>

\* lines 121-125 of call c: the engine is started with cwd = tmp_dir_path
LaunchIn(c) ==
    /\ callAt[c] = "popen"
    /\ callAt' = [callAt EXCEPT ![c] = "engine"]
    /\ UNCHANGED << single, tmp_dir_path, tmpRoot, readOf >>

\* the engine of call c runs in its cwd: it reads the data.dat there and
\* leaves the result.dat computed from it, the result for the call whose
\* request that data.dat is
EngineRunsIn(c) ==
    /\ callAt[c] = "engine"
    /\ tmpRoot' = IF tmpRoot[tmp_dir_path[c]].exists
                  THEN [tmpRoot EXCEPT ![tmp_dir_path[c]].result =
                                           tmpRoot[tmp_dir_path[c]].data]
                  ELSE tmpRoot
    /\ callAt' = [callAt EXCEPT ![c] = "wait"]
    /\ UNCHANGED << single, tmp_dir_path, readOf >>

\* lines 126-130 of call c: wait returns; a non-zero exit status fails the
\* assert
WaitIn(c) ==
    /\ callAt[c] = "wait"
    /\ \E status \in {0, 1} :
          callAt' = [callAt EXCEPT ![c] = IF status = 0 THEN "read" ELSE "exit"]
    /\ UNCHANGED << single, tmp_dir_path, tmpRoot, readOf >>

\* lines 133-146 of call c: result.dat of the call's tmp_dir_path is opened,
\* decoded and sorted, and the first yield suspends the call; IOError when
\* the file is not there
ReadResultIn(c) ==
    /\ callAt[c] = "read"
    /\ IF tmpRoot[tmp_dir_path[c]].exists /\ tmpRoot[tmp_dir_path[c]].result # 0
       THEN /\ readOf' = [readOf EXCEPT ![c] = tmpRoot[tmp_dir_path[c]].result]
            /\ callAt' = [callAt EXCEPT ![c] = "suspended"]
       ELSE /\ callAt' = [callAt EXCEPT ![c] = "exit"]
            /\ UNCHANGED readOf
    /\ UNCHANGED << single, tmp_dir_path, tmpRoot >>

\* the caller of call c drains the stream or closes it: the body leaves the
\* with-blocks
FinishIn(c) ==
    /\ callAt[c] = "suspended"
    /\ callAt' = [callAt EXCEPT ![c] = "exit"]
    /\ UNCHANGED << single, tmp_dir_path, tmpRoot, readOf >>

\* TmpDir.__exit__ of call c: rmtree removes the directory at the path this
\* TmpDir holds, with the files in it
TmpDirExitIn(c) ==
    /\ callAt[c] = "exit"
    /\ tmpRoot' = [tmpRoot EXCEPT ![tmp_dir_path[c]] = NoDir]
    /\ callAt' = [callAt EXCEPT ![c] = "ended"]
    /\ UNCHANGED << single, tmp_dir_path, readOf >>

\* one batch for the invocation at rest
InitTwo ==
    /\ samples = << <<0>> >>
    /\ sample_dim = None
    /\ seedSupplied = FALSE
    /\ randseed = EMPTY_SEED
    /\ verbose = FALSE
    /\ engine = EchoEngine
    /\ InitRest

NextTwo ==
    \E c \in Calls :
        \/ FirstNextIn(c)
        \/ TmpDirEnterIn(c)
        \/ WriteRequestIn(c)
        \/ LaunchIn(c)
        \/ EngineRunsIn(c)
        \/ WaitIn(c)
        \/ ReadResultIn(c)
        \/ FinishIn(c)
        \/ TmpDirExitIn(c)

\* any interleaving of the steps of the two invocations
SpecTwo == InitTwo /\ [][NextTwo]_vars

\* ---------------------------------------------------------------------
\* Vocabulary of the properties
\* ---------------------------------------------------------------------
\* the caller's sample count
N == Len(samples)

\* what the engine of this run emitted, by the layout of the result file:
\* int count, int dims, count * dims doubles, count int landmarks, count costs
Emitted == Content(engine.result)
EmittedCount == Emitted[1][2]
EmittedDims == Emitted[2][2]
EmittedVector(p) ==
    [j \in 1..EmittedDims |-> Emitted[2 + (p - 1) * EmittedDims + j][2]]
EmittedLandmark(p) == Emitted[2 + EmittedCount * EmittedDims + p][2]

EmittedHeader == Present(engine.result) /\ Len(Emitted) >= 2

EmittedWhole ==
    /\ EmittedHeader
    /\ Len(Emitted) = 2 + EmittedCount * EmittedDims + 2 * EmittedCount

\* the landmarks are a permutation of 0..count-1
EmittedPermutation ==
    \A i \in 0..(EmittedCount - 1) :
        Cardinality({ p \in 1..EmittedCount : EmittedLandmark(p) = i }) = 1

\* the engine exits 0 and leaves N records tagged with a permutation of 0..N-1
EngineRanWell ==
    /\ engine.returncode = 0
    /\ EmittedWhole
    /\ EmittedCount = N
    /\ EmittedPermutation

\* the engine has ended with a non-zero exit status
EngineFailed == returncode # None /\ returncode # Some(0)

\* ---------------------------------------------------------------------
\* C1 - reordering by landmark
\* ---------------------------------------------------------------------
\* C1: when the engine exits 0 and leaves N records whose landmarks are a
\* permutation of 0..N-1, the j-th vector yielded (j counted from 1) is the
\* vector that stood in the vector block at the position at which landmark
\* j-1 stood in the landmark block, and a drained stream has yielded all N.
C1_YieldedByLandmark ==
    EngineRanWell =>
        /\ \A j \in 1..Len(yielded) : \A p \in 1..EmittedCount :
               EmittedLandmark(p) = j - 1 => yielded[j] = EmittedVector(p)
        /\ pc = "done" => Len(yielded) = N

\* a drained stream whose engine emitted the records out of input order
C1_Witness ==
    /\ pc = "done"
    /\ EngineRanWell
    /\ N = MaxN
    /\ Len(yielded) = N
    /\ EmittedLandmark(1) # 0
    /\ EmittedVector(1) # EmittedVector(2)

\* ---------------------------------------------------------------------
\* C2 - the workspace is removed on every exit path
\* ---------------------------------------------------------------------
\* C2: once an invocation that created its workspace has ended - the stream
\* drained or closed, an error while encoding, a non-zero engine exit, an error
\* while decoding, an interrupt during the wait - the workspace directory and
\* the files in it are gone, on every path on which rmtree itself did not raise.
C2_WorkspaceRemoved ==
    (Ended /\ wsCreated > 0 /\ ~rmtreeFailed) =>
        ~wsExists /\ ~Present(dataFile) /\ ~Present(resultFile)

\* an invocation interrupted during the wait has ended and left no workspace
C2_Witness ==
    /\ pc = "failed"
    /\ err = "KeyboardInterrupt"
    /\ wsCreated = 1
    /\ ~wsExists

\* ---------------------------------------------------------------------
\* C3 - a non-zero exit status of the engine
\* ---------------------------------------------------------------------
\* C3: once the engine has ended with a non-zero exit status, it has been
\* launched exactly once, the result file is never opened and no vector is
\* yielded; the invocation ends only by failing, and, rmtree not having raised,
\* it fails with the AssertionError of line 127 and the workspace is gone.
C3_EngineFailure ==
    EngineFailed =>
        /\ launches = 1
        /\ ~resultOpened
        /\ yielded = <<>>
        /\ pc \in {"assert", "tmpdir_exit", "failed"}
        /\ (pc = "failed" /\ ~rmtreeFailed) => (err = "AssertionError" /\ ~wsExists)

\* the engine failed although it left a result file; the call has failed
C3_Witness ==
    /\ pc = "failed"
    /\ err = "AssertionError"
    /\ EngineFailed
    /\ Present(engine.result)
    /\ ~wsExists

\* ---------------------------------------------------------------------
\* C4, C5 - the result count against the caller's sample count
\* ---------------------------------------------------------------------
\* C4: for a non-empty batch and an engine that exits 0, a call that completes
\* without error has yielded exactly N vectors.
C4_YieldsN ==
    (pc = "done" /\ N >= 1 /\ returncode = Some(0)) => Len(yielded) = N

\* C5: when the header of the result file declares a count other than N, no
\* vector is yielded and the call does not complete without error.
C5_CountMismatchFails ==
    (EmittedHeader /\ EmittedCount # N) => (yielded = <<>> /\ pc # "done")

\* ---------------------------------------------------------------------
\* C6 - samples of differing dimensionality
\* ---------------------------------------------------------------------
\* the dimensionality the call declares: sample_dim, by default len(samples[0])
DeclaredDim == IF sample_dim = None THEN Len(samples[1]) ELSE sample_dim[1]

Ragged == N >= 1 /\ \E p \in 1..N : Len(samples[p]) # DeclaredDim

\* C6: when some sample has not the declared dimensionality, no byte of the
\* request file is written, the engine is not launched, and the call ends only
\* by failing.
C6_RaggedRejected ==
    Ragged =>
        /\ Present(dataFile) => Content(dataFile) = <<>>
        /\ launches = 0
        /\ pc # "done"

\* ---------------------------------------------------------------------
\* C7 - no partial delivery
\* ---------------------------------------------------------------------
\* the vectors of the sorted records, in order
AllVectors == [j \in 1..Len(results) |-> Vector(results[j])]

\* C7: a call that fails, the caller not having closed the stream, has yielded
\* either nothing or the whole sorted sequence; and whenever a vector has been
\* yielded, all result_samples vectors and landmarks had been read and sorted.
C7_AllOrNothing ==
    /\ (pc = "failed" /\ ~closeCalled) => (yielded = <<>> \/ yielded = AllVectors)
    /\ yielded # <<>> =>
          /\ Len(results) = result_samples
          /\ pos = 2 + result_samples * result_dims + result_samples
          /\ results = Sorted(results)
          /\ Len(yielded) <= Len(results)
          /\ yielded = SubSeq(AllVectors, 1, Len(yielded))

\* decoding failed after the vectors were read: nothing was yielded
C7_Witness ==
    /\ pc = "failed"
    /\ err = "struct.error"
    /\ Len(vectors) = MaxN
    /\ yielded = <<>>

\* ---------------------------------------------------------------------
\* C8 - the lifetime of the workspace
\* ---------------------------------------------------------------------
\* C8 as stated: whenever the caller holds a yielded vector, the workspace
\* directory no longer exists.
C8_NoWorkspaceWhileHolding ==
    (pc \in {"suspended", "done", "failed", "closed"} /\ yielded # <<>>) => ~wsExists

\* C8, amended: the workspace is created immediately before the request is
\* encoded, exists all the while the generator is suspended at a yield, and is
\* gone once the invocation has ended, on any failure too (rmtree not raising).
C8_WorkspaceUntilStreamEnds ==
    /\ pc \in {"created", "mkdtemp"} => (~wsExists /\ ~Present(dataFile))
    /\ pc = "open_data" => (wsExists /\ ~Present(dataFile))
    /\ pc = "suspended" => (wsExists /\ yielded # <<>>)
    /\ (Ended /\ ~rmtreeFailed) => ~wsExists

\* the caller holds the first of several vectors and the workspace exists
C8_Witness ==
    /\ pc = "suspended"
    /\ Len(yielded) = 1
    /\ Len(results) > 1
    /\ wsExists

\* ---------------------------------------------------------------------
\* C9 - the seed block
\* ---------------------------------------------------------------------
\* the request file is written and closed, and not yet removed
RequestWritten == (pc = "popen" \/ launches > 0) /\ Present(dataFile)

\* the fields up to the end of the sample block: five of the header, then
\* len(sample) for every sample
RECURSIVE SumLen(_)
SumLen(ss) == IF ss = <<>> THEN 0 ELSE Len(Head(ss)) + SumLen(Tail(ss))
SampleBlockEnd == 5 + SumLen(samples)

EndsWithSeed ==
    /\ Len(Content(dataFile)) = SampleBlockEnd + 1
    /\ Content(dataFile)[SampleBlockEnd + 1] = <<"i", randseed>>

EndsWithSamples == Len(Content(dataFile)) = SampleBlockEnd

\* C9 as stated: the written request file ends with the seed if and only if
\* the caller supplied one, and with the sample block otherwise.
C9_SeedIffSupplied ==
    RequestWritten =>
        /\ seedSupplied <=> EndsWithSeed
        /\ ~seedSupplied => EndsWithSamples

\* C9, amended: the written request file ends with the seed if and only if
\* randseed differs from EMPTY_SEED (-1), whether or not the caller supplied
\* it, and with the sample block otherwise; a seed that does not fit a native
\* int fails the encoding before the engine is launched.
C9_SeedIffNotEmpty ==
    /\ RequestWritten =>
          /\ randseed # EMPTY_SEED <=> EndsWithSeed
          /\ randseed = EMPTY_SEED => EndsWithSamples
    /\ (randseed # EMPTY_SEED /\ ~FitsInt(randseed)) => (launches = 0 /\ pc # "popen")

\* a supplied seed stands at the end of the written request file
C9_Witness ==
    /\ RequestWritten
    /\ seedSupplied
    /\ randseed = 0
    /\ N = MaxN
    /\ EndsWithSeed

\* ---------------------------------------------------------------------
\* C10 - the empty batch
\* ---------------------------------------------------------------------
\* C10: for an empty batch no workspace is created, no request file is written
\* and the engine is not launched, with or without an explicit sample_dim, and
\* the call ends only by failing (or by being closed before it started).
C10_EmptyRejected ==
    N = 0 =>
        /\ wsCreated = 0
        /\ ~Present(dataFile)
        /\ launches = 0
        /\ pc # "done"

\* ---------------------------------------------------------------------
\* C11 - round trip through an echoing engine
\* ---------------------------------------------------------------------
\* every sample has the dimensionality the header declares
Rectangular == \A p \in 1..N : Len(samples[p]) = DeclaredDim

\* C11: against the engine that echoes the N rows of the request as result
\* vectors tagged 0..N-1, for a batch whose samples all have the declared
\* dimensionality, the vectors yielded so far are the first samples, value for
\* value and in order, and a drained stream has yielded exactly the samples.
C11_RoundTrip ==
    /\ (engine.echo /\ N = 0) => yielded = <<>>
    /\ (engine.echo /\ N >= 1 /\ Rectangular) =>
          /\ Len(yielded) <= N
          /\ \A j \in 1..Len(yielded) : yielded[j] = samples[j]
          /\ pc = "done" => yielded = samples

\* a drained round trip of MaxN samples that differ and are no palindromes
C11_Witness ==
    /\ engine.echo
    /\ pc = "done"
    /\ N = MaxN
    /\ yielded = samples
    /\ samples[1] # samples[2]
    /\ samples[1] = <<0, 1>>

\* ---------------------------------------------------------------------
\* C12 - the stream is single-pass
\* ---------------------------------------------------------------------
\* C12: once the invocation has ended, no step - a further next() least of
\* all - yields a vector, creates a workspace, launches the engine or brings
\* the generator back to life; in particular iterating a drained stream again
\* yields nothing.
C12_SinglePass ==
    [][Ended =>
         /\ pc' = pc
         /\ yielded' = yielded
         /\ wsCreated' = wsCreated
         /\ wsExists' = wsExists
         /\ launches' = launches
         /\ dataFile' = dataFile]_vars

\* next() was called again on a drained stream of several vectors
C12_Witness ==
    /\ pc = "done"
    /\ stops
    /\ Len(yielded) = MaxN
    /\ wsCreated = 1
    /\ launches = 1

\* ---------------------------------------------------------------------
\* C13 - the order of the steps
\* ---------------------------------------------------------------------
\* the place of a position of the body in the order of the steps
Stage(p) ==
    CASE p = "created" -> 0
      [] p = "mkdtemp" -> 1
      [] p = "open_data" -> 2
      [] p = "write_header" -> 3
      [] p = "write_samples" -> 4
      [] p = "popen" -> 5
      [] p = "wait" -> 6
      [] p = "assert" -> 7
      [] p = "open_result" -> 8
      [] p = "read_header" -> 9
      [] p = "read_vectors" -> 10
      [] p = "read_landmarks" -> 11
      [] p = "sort" -> 12
      [] p \in {"loop", "suspended"} -> 13
      [] p = "tmpdir_exit" -> 14
      [] p \in {"done", "failed", "closed"} -> 15

\* the fields of the whole request: header, sample block, seed if there is one
WholeRequestLen == SampleBlockEnd + (IF randseed # EMPTY_SEED THEN 1 ELSE 0)

\* what has happened by the time each step is reached
StepsInOrder ==
    /\ wsCreated <= 1 /\ launches <= 1
    /\ Present(dataFile) => wsExists
    /\ launches > 0 =>
          /\ wsCreated = 1
          /\ ~dataOpen
          /\ Present(dataFile) => Len(Content(dataFile)) = WholeRequestLen
    /\ engineState = "exited" <=> returncode # None
    /\ returncode # None => launches = 1
    /\ resultOpened => returncode = Some(0)
    /\ (pos > 0 \/ vectors # <<>> \/ results # <<>>) => resultOpened
    /\ Stage(pc) >= 13 /\ resultOpened /\ err \in {"none", "GeneratorExit"}
          => results = Sorted(results)
    /\ yielded # <<>> => (Stage(pc) >= 13 /\ results = Sorted(results))
    /\ wsExists => Stage(pc) \in 2..14 \/ rmtreeFailed

\* C13: the steps of one invocation go in the order created, request written
\* and closed, engine launched, engine ended, result opened and decoded,
\* records sorted, vectors yielded, workspace removed: no step goes back to an
\* earlier one, so each is taken at most once; the workspace is created and
\* the engine launched only at their own step, the engine never while the
\* request file is open, and the result file is opened only after the engine
\* has ended with exit status 0.
C13_StepsInOrder ==
    /\ []StepsInOrder
    /\ [][/\ Stage(pc') >= Stage(pc)
          /\ (Stage(pc') = Stage(pc) /\ pc' # pc) => Stage(pc) = 13
          /\ wsCreated' # wsCreated => (pc = "mkdtemp" /\ pc' = "open_data")
          /\ launches' # launches => (pc = "popen" /\ ~dataOpen /\ pc' = "wait")
          /\ (resultOpened' /\ ~resultOpened) => (pc = "open_result" /\ returncode = Some(0))
          /\ (~wsExists' /\ wsExists) => (pc = "tmpdir_exit" /\ Stage(pc') = 15)
          /\ yielded' # yielded => (pc = "loop" /\ pc' = "suspended")]_vars

\* a whole run: every step taken once, several vectors yielded
C13_Witness ==
    /\ pc = "done"
    /\ wsCreated = 1
    /\ launches = 1
    /\ returncode = Some(0)
    /\ resultOpened
    /\ Len(yielded) = MaxN
    /\ ~wsExists

\* ---------------------------------------------------------------------
\* C14 - the sort is stable in the landmark
\* ---------------------------------------------------------------------
\* the positions of the emitted records, in emission order
EmittedPositions == [p \in 1..EmittedCount |-> p]

\* the emitted vectors tagged i, in emission order
EmittedTagged(i) ==
    LET at == SelectSeq(EmittedPositions, LAMBDA p : EmittedLandmark(p) = i)
    IN  [q \in 1..Len(at) |-> EmittedVector(at[q])]

\* the emitted vectors in ascending landmark, equal landmarks in emission
\* order (the landmarks of the model are among 0..count-1)
EmittedStable == Flatten([i \in 1..EmittedCount |-> EmittedTagged(i - 1)])

\* C14: a drained stream has yielded the emitted vectors in non-decreasing
\* landmark, and those with the same landmark in the order the engine emitted
\* them, whatever their values.
C14_StableByLandmark ==
    (pc = "done" /\ ~engine.echo /\ engine.returncode = 0 /\ EmittedWhole)
        => yielded = EmittedStable

\* ---------------------------------------------------------------------
\* C15 - a failing removal after a failing computation
\* ---------------------------------------------------------------------
\* the exceptions of a failed computation: encoding the request (struct.error,
\* IOError), the engine's exit status (AssertionError), decoding the result
\* (IOError, struct.error)
ComputationErrors == {"struct.error", "IOError", "AssertionError"}

\* C15: when the computation has failed and the removal of the workspace
\* fails as well, the exception that reaches the caller is still the
\* computation's, not the removal's.
C15_ComputationErrorFirst ==
    [][(pc = "tmpdir_exit" /\ err \in ComputationErrors /\ pc' = "failed")
           => err' = err]_vars

\* ---------------------------------------------------------------------
\* C16 - the request file is written whole or not at all
\* ---------------------------------------------------------------------
\* the complete request of the call: header, every sample, the seed block
WholeRequest ==
    PackHeader(sample_count, sample_dim[1], theta, perplexity, no_dims)
        \o Flatten([i \in 1..Len(samples) |-> PackSample(samples[i])])
        \o SeedBlock(randseed)

\* C16: at every moment, a failed encoding included, the request file at its
\* path in the workspace is absent or holds the complete request: once it
\* holds the header it holds every sample and the seed block as well, never
\* the header with only some of the samples.
C16_RequestWholeOrAbsent ==
    (Present(dataFile) /\ Len(Content(dataFile)) >= 5)
        => Content(dataFile) = WholeRequest

\* ---------------------------------------------------------------------
\* C17 - the cost block
\* ---------------------------------------------------------------------
\* decoding has finished: the landmarks are read and the generator is at or
\* past line 144, not failed
Decoded == resultOpened /\ pc \in {"sort", "loop", "suspended", "done"}

\* the engine exits 0 and leaves a well-formed result for the N samples
WellFormedResult == ~engine.echo /\ EngineRanWell

\* C17 as stated: once decoding has finished on a well-formed result file,
\* the N costs have been read too and the read position is at the end of the
\* file.
C17_CostsReadToEnd ==
    (Decoded /\ WellFormedResult) => pos = Len(Emitted)

\* C17: the decoder reads the header, the vectors and the landmarks and
\* nothing after them: once decoding has finished on a well-formed result
\* file, the read position is just behind the landmark block, the N costs
\* are the unread rest of the file, and it stays there to the end of the run.
C17_CostsLeftUnread ==
    (Decoded /\ WellFormedResult)
        => /\ pos = 2 + EmittedCount * EmittedDims + EmittedCount
           /\ Len(Emitted) - pos = N
           /\ \A j \in (pos + 1)..Len(Emitted) : Emitted[j][1] = "d"

C17_Witness ==
    /\ pc = "done"
    /\ resultOpened
    /\ WellFormedResult
    /\ N = 2
    /\ Len(yielded) = 2
    /\ pos = Len(Emitted) - 2

\* ---------------------------------------------------------------------
\* C18 - two invocations at once
\* ---------------------------------------------------------------------
\* call c has written its request and is still inside "with TmpDir()"
RequestStands(c) ==
    callAt[c] \in {"popen", "engine", "wait", "read", "suspended", "exit"}

\* C18: in any interleaving of two invocations, the two hold different
\* workspace directories while both are inside "with TmpDir()"; the
\* workspace of an invocation exists for as long as it is inside, so the
\* other's cleanup has not removed it; the request file in it is still its
\* own, not overwritten by the other; and the result an invocation has
\* decoded is the one written for it.
C18_DistinctWorkspaces ==
    /\ \A c \in Calls : \A d \in Calls \ {c} :
          (Holding(c) /\ Holding(d)) => tmp_dir_path[c] # tmp_dir_path[d]
    /\ \A c \in Calls :
          /\ Holding(c) => tmpRoot[tmp_dir_path[c]].exists
          /\ RequestStands(c) => tmpRoot[tmp_dir_path[c]].data = c
          /\ readOf[c] \in {0, c}

\* both invocations are suspended at a yield at once, each on its own result
C18_Witness ==
    /\ \A c \in Calls : callAt[c] = "suspended" /\ readOf[c] = c
    /\ tmp_dir_path[1] # tmp_dir_path[2]

\* ---------------------------------------------------------------------
\* C19 - nothing happens before the first next()
\* ---------------------------------------------------------------------
\* nothing of the body has had an effect: no argument looked at, no
\* workspace, no request file, no engine, no error
NoEffectYet ==
    /\ sample_count = 0
    /\ k = 0
    /\ ~wsExists
    /\ wsCreated = 0
    /\ ~Present(dataFile)
    /\ ~dataOpen
    /\ launches = 0
    /\ engineState = "none"
    /\ returncode = None
    /\ ~Present(resultFile)
    /\ ~resultOpened
    /\ err = "none"
    /\ yielded = <<>>

\* the first next() has returned: with a vector, StopIteration or an
\* exception
FirstRequestOver == yielded # <<>> \/ Ended

\* C19: as long as the caller has not asked for the first element nothing
\* has happened, whatever the arguments are; closing the generator then
\* leaves it so; and once the first request has returned, no later step
\* validates, creates a workspace, writes the request file or launches the
\* engine, so every such effect of a run lies inside the first request.
C19_Lazy ==
    /\ [](pc = "created" => NoEffectYet)
    /\ [][/\ (pc = "created" /\ closeCalled') => (NoEffectYet' /\ Ended')
          /\ FirstRequestOver =>
                /\ sample_count' = sample_count
                /\ sample_dim' = sample_dim
                /\ wsCreated' = wsCreated
                /\ wsExists' => wsExists
                /\ dataFile' \in {dataFile, Absent}
                /\ launches' = launches
                /\ returncode' = returncode
                /\ err' \in {err, "GeneratorExit", "OSError"}]_vars

\* an empty batch, which the first next() would reject, was passed and the
\* generator closed unstarted: nothing has happened, and later calls of
\* next() have changed nothing
C19_Witness ==
    /\ samples = <<>>
    /\ sample_dim = None
    /\ pc = "closed"
    /\ stops
    /\ NoEffectYet

\* ---------------------------------------------------------------------
\* C20 - the caller abandons the stream early
\* ---------------------------------------------------------------------
\* the caller holds some vectors, not all, and has not closed the stream
PartlyConsumed ==
    /\ pc = "suspended"
    /\ Len(yielded) >= 1
    /\ Len(yielded) < Len(results)

\* C20: while the caller holds some of the vectors, not all, and has not
\* closed the stream, the workspace and the result file in it still exist;
\* close() at that point goes straight to the removal of the workspace and
\* no vector is delivered after it; and a generator that has been closed, or
\* has ended in any way with rmtree not raising, has no workspace left.
C20_EarlyAbandonment ==
    /\ [](PartlyConsumed => (wsExists /\ Present(resultFile) /\ ~closeCalled))
    /\ [](pc = "closed" => (closeCalled /\ ~wsExists))
    /\ []((Ended /\ ~rmtreeFailed) => ~wsExists)
    /\ [][/\ (PartlyConsumed /\ closeCalled') => (pc' = "tmpdir_exit" /\ wsExists')
          /\ closeCalled => yielded' = yielded]_vars

\* the caller took the first of two vectors and closed the stream: the
\* workspace that was made is gone and the second vector was never delivered
C20_Witness ==
    /\ pc = "closed"
    /\ closeCalled
    /\ wsCreated = 1
    /\ Len(results) = 2
    /\ Len(yielded) = 1
    /\ ~wsExists

====
